---- MODULE Spec2Model ----
(***************************************************************************)
(* Contract Compliance Guard: the policy evaluation and adjudication core  *)
(* (src/src/tools.py, src/src/state.py, src/src/config.py) and the        *)
(* analysis pipeline that drives it (src/src/agent.py).                    *)
(*                                                                         *)
(* Numbers.  Risk contributions are Python floats (22.5, 37.5).  They are  *)
(* represented as integers in units of 1/Pt of a risk point, Pt = 16: a    *)
(* quarter point is 4 units, and one unit stands for the last-bit error    *)
(* of an IEEE double operation (see FloatRoundingError, FloatAdd).         *)
(* Percentages (annual_escalation_percent, AUTO_ESCALATION_MAX_PERCENT)    *)
(* are in tenths of a percent: 3 percent is 30.                            *)
(*                                                                         *)
(* Python dicts are functions whose DOMAIN is the set of keys present;     *)
(* d.get(k, default) is Get(d, k, default).  None is the string "None".    *)
(***************************************************************************)
EXTENDS Integers, Sequences, FiniteSets, TLC

VARIABLES
    policy_file,     \* data/company_policy.json as load_company_policy finds it
    policy,          \* config.py: the values loaded once at import time
    pc,              \* position of the caller / of the pipeline
    terms,           \* the term record handed to the checkers
    payment_check,   \* result of check_payment_terms
    return_check,    \* result of check_return_rights
    variable_check,  \* result of check_variable_consideration
    risk_score,      \* result of calculate_risk_score / input of the mapper
    recommendation,  \* result of get_recommendation_from_score
    contract_id,     \* run_analysis: the contract requested
    use_demo,        \* run_analysis: the use_demo argument
    api_key_set,     \* has_api_key(): ANTHROPIC_API_KEY is in the environment
    state,           \* run_live_analysis: the state dict handed from node to node
    result,          \* what run_analysis gave its caller: a value or an error
    stdout,          \* lines printed by run_analysis
    responses,       \* run_live_analysis: what llm.invoke gave each node (response)
    earlier,         \* the result and the responses of the analysis run before this one
    received         \* the state object the last node was handed: then and at its return

toolVars == <<terms, payment_check, return_check, variable_check,
              risk_score, recommendation>>

runVars == <<contract_id, use_demo, api_key_set, state, result, stdout,
             responses, earlier, received>>

vars == <<policy_file, policy, pc, toolVars, runVars>>

-----------------------------------------------------------------------------
(* Bounds of the model *)

MaxPaymentDays == 150
MaxReturnDays == 90
MaxEscalationTenths == 50
MinScoreBelow == 5
MaxScoreAbove == 20
MaxProbePoints == 115

-----------------------------------------------------------------------------
(* Python values *)

EmptyDict == [k \in {} |-> TRUE]

None == "None"

Get(d, k, default) == IF k \in DOMAIN d THEN d[k] ELSE default

\* what a call gives its caller: the value it returns or the exception it raises
Returned(value) == [kind |-> "returned", value |-> value]

Raised(error) == [kind |-> "raised", error |-> error]

Min(a, b) == IF a <= b THEN a ELSE b

\* units per risk point: 4 quarter points, each of 4 last-bit units
Pt == 4 * 4

Quarter == Pt \div 4

\* int(x) of a float x: truncation toward zero
IntOf(x) == IF x >= 0 THEN x \div Pt ELSE 0 - ((0 - x) \div Pt)

\* IEEE double addition of two values each within one last-bit unit of a
\* quarter-point multiple: adding 0.0 is exact; adding a nonzero contribution
\* (>= 10 points) moves the sum to a higher binade, where the last-bit error
\* of the smaller operand is at most half an ulp next to an even mantissa and
\* is rounded away.
FloatAdd(a, b) ==
    IF a = 0 THEN b
    ELSE IF b = 0 THEN a
    ELSE ((a + b + (Quarter \div 2)) \div Quarter) * Quarter

-----------------------------------------------------------------------------
(* config.py *)

DefaultPaymentTermsMaxDays == 60
DefaultReturnPeriodMaxDays == 30
DefaultAutoEscalationMaxPercent == 3
DefaultVariableConsiderationThreshold == 10

RISK_WEIGHTS ==
    [extended_payment_terms |-> 15,
     right_of_return |-> 25,
     price_protection |-> 30,
     mfc_clause |-> 30,
     milestone_payments |-> 10,
     consignment |-> 35,
     auto_renewal_high_escalation |-> 12,
     unlimited_liability |-> 20,
     variable_consideration |-> 15]

\* asc_606_risk_factors of the policy document: factor name -> {reference}
FullRiskFactors ==
    [extended_payment_terms |-> [reference |-> "ref_extended_payment_terms"],
     right_of_return |-> [reference |-> "ref_right_of_return"],
     price_protection |-> [reference |-> "ref_price_protection"],
     milestone_payments |-> [reference |-> "ref_milestone_payments"],
     consignment |-> [reference |-> "ref_consignment"]]

\* The policy documents considered: each threshold at its default or at one
\* other value, the reference table full or absent (COMPANY_POLICY.get(.., {})).
DefaultPolicy ==
    [PAYMENT_TERMS_MAX_DAYS |-> DefaultPaymentTermsMaxDays,
     RETURN_PERIOD_MAX_DAYS |-> DefaultReturnPeriodMaxDays,
     AUTO_ESCALATION_MAX_PERCENT |-> DefaultAutoEscalationMaxPercent * 10,
     VARIABLE_CONSIDERATION_THRESHOLD |-> DefaultVariableConsiderationThreshold,
     ASC_606_RISK_FACTORS |-> FullRiskFactors]

\* The policy documents considered: the defaults, and the documents that
\* differ from them in one field (a lower payment cap, a higher return cap,
\* a higher escalation cap, no reference table).
Policies ==
    {DefaultPolicy,
     [DefaultPolicy EXCEPT !.PAYMENT_TERMS_MAX_DAYS = 30],
     [DefaultPolicy EXCEPT !.RETURN_PERIOD_MAX_DAYS = 61],
     [DefaultPolicy EXCEPT !.AUTO_ESCALATION_MAX_PERCENT = 50],
     [DefaultPolicy EXCEPT !.ASC_606_RISK_FACTORS = EmptyDict]}

\* data/company_policy.json: not there, not JSON, JSON that is no object
\* (json.load gives a list), or a JSON object with some of the fields
MissingFile == [kind |-> "missing"]

InvalidJsonFile == [kind |-> "invalid_json"]

NonObjectFile == [kind |-> "json_array"]

ObjectFile(doc) == [kind |-> "json_object", fields |-> doc]

load_company_policy(file) ==
    IF file.kind = "missing" THEN Raised("FileNotFoundError")
    ELSE IF file.kind = "invalid_json" THEN Raised("ValueError")
    ELSE Returned(file)

\* mutant: the payment default copied to the return period
ModuleValues_copied_default(doc) ==
    [PAYMENT_TERMS_MAX_DAYS |->
        Get(doc, "payment_terms_max_days", DefaultPaymentTermsMaxDays),
     RETURN_PERIOD_MAX_DAYS |->
        Get(doc, "return_period_max_days", DefaultPaymentTermsMaxDays),
     AUTO_ESCALATION_MAX_PERCENT |->
        Get(doc, "auto_escalation_max_percent", DefaultAutoEscalationMaxPercent * 10),
     VARIABLE_CONSIDERATION_THRESHOLD |->
        Get(doc, "variable_consideration_threshold_percent",
            DefaultVariableConsiderationThreshold),
     ASC_606_RISK_FACTORS |-> Get(doc, "asc_606_risk_factors", EmptyDict)]

\* the module-level assignments of config.py: COMPANY_POLICY.get(field, default)
ModuleValues(doc) ==
    [PAYMENT_TERMS_MAX_DAYS |->
        Get(doc, "payment_terms_max_days", DefaultPaymentTermsMaxDays),
     RETURN_PERIOD_MAX_DAYS |->
        Get(doc, "return_period_max_days", DefaultReturnPeriodMaxDays),
     AUTO_ESCALATION_MAX_PERCENT |->
        Get(doc, "auto_escalation_max_percent", DefaultAutoEscalationMaxPercent * 10),
     VARIABLE_CONSIDERATION_THRESHOLD |->
        Get(doc, "variable_consideration_threshold_percent",
            DefaultVariableConsiderationThreshold),
     ASC_606_RISK_FACTORS |-> Get(doc, "asc_606_risk_factors", EmptyDict)]

\* import of config.py: the file is loaded, then the module values are read
\* from it with .get, which a list does not have
import_config(file) ==
    LET loaded == load_company_policy(file)
    IN  IF loaded.kind = "raised" THEN loaded
        ELSE IF loaded.value.kind # "json_object" THEN Raised("AttributeError")
        ELSE Returned(ModuleValues(loaded.value.fields))

\* the documents the policies above are loaded from
ConsideredDocuments ==
    LET full == "asc_606_risk_factors" :> FullRiskFactors
    IN  {full,
         full @@ ("payment_terms_max_days" :> 30),
         full @@ ("return_period_max_days" :> 61),
         full @@ ("auto_escalation_max_percent" :> 50),
         EmptyDict}

\* config.py was imported without an error: the module values are those of
\* the policy file
Imported ==
    /\ policy_file \in {ObjectFile(doc) : doc \in ConsideredDocuments}
    /\ import_config(policy_file) = Returned(policy)

\* mutant: a placeholder string instead of None for a missing reference
Reference_placeholder(factor) ==
    Get(Get(policy.ASC_606_RISK_FACTORS, factor, EmptyDict), "reference", "N/A")

\* ASC_606_RISK_FACTORS.get(factor, {}).get('reference')
Reference(factor) ==
    Get(Get(policy.ASC_606_RISK_FACTORS, factor, EmptyDict), "reference", None)

-----------------------------------------------------------------------------
(* state.py *)

\* mutant: the breakpoints taken as strict (30 and 60 fall in the higher band)
get_recommendation_strict(score) ==
    IF score < 30 THEN "approve"
    ELSE IF score < 60 THEN "legal_review"
    ELSE "reject"

get_recommendation_from_score(score) ==
    IF score <= 30 THEN "approve"
    ELSE IF score <= 60 THEN "legal_review"
    ELSE "reject"

\* mutant: the low band ends at 29 and the medium band starts at 30
RISK_THRESHOLDS_at30 ==
    << [level |-> "low", low |-> 0, high |-> 29],
       [level |-> "medium", low |-> 30, high |-> 60],
       [level |-> "high", low |-> 61, high |-> 100] >>

\* the dict in its insertion order, the order .items() walks it
RISK_THRESHOLDS ==
    << [level |-> "low", low |-> 0, high |-> 30],
       [level |-> "medium", low |-> 31, high |-> 60],
       [level |-> "high", low |-> 61, high |-> 100] >>

\* the first level whose range holds the score, "high" when none does
get_risk_level(score) ==
    LET matching == {i \in 1..Len(RISK_THRESHOLDS) :
                        /\ RISK_THRESHOLDS[i].low <= score
                        /\ score <= RISK_THRESHOLDS[i].high}
    IN  IF matching = {} THEN "high"
        ELSE RISK_THRESHOLDS[CHOOSE i \in matching : \A j \in matching : i <= j].level

-----------------------------------------------------------------------------
(* tools.py: the three checkers and the aggregator *)

Compliant == [compliant |-> TRUE, issues |-> <<>>, risk_score_contribution |-> 0]

\* Last-bit error of the double RISK_WEIGHTS['extended_payment_terms'] *
\* (1 + excess_days / 60) against the exact value 15 + excess_days / 4,
\* for 1 <= excess_days <= 40 (above 40 the value exceeds the cap of 25):
\* 15.500000000000002 at 2, 23.750000000000004 at 35, 24.999999999999996 at 40.
FloatRoundingError(excess_days) ==
    CASE excess_days = 2 -> 1
      [] excess_days = 35 -> 1
      [] excess_days = 40 -> 0 - 1
      [] OTHER -> 0

\* mutant: only an excess of more than 30 days contributes to the score
PaymentRisk_over_month(excess_days) ==
    IF excess_days <= 30 THEN 0
    ELSE Min(RISK_WEIGHTS.extended_payment_terms * Pt
               + (RISK_WEIGHTS.extended_payment_terms * Pt * excess_days) \div 60,
             25 * Pt)

\* min(RISK_WEIGHTS['extended_payment_terms'] * (1 + excess_days / 60), 25)
PaymentRisk(excess_days) ==
    Min(RISK_WEIGHTS.extended_payment_terms * Pt
          + (RISK_WEIGHTS.extended_payment_terms * Pt * excess_days) \div 60
          + FloatRoundingError(excess_days),
        25 * Pt)

\* mutant: an excess of exactly 30 days already counts as high
PaymentSeverity_strict(excess_days) == IF excess_days < 30 THEN "medium" ELSE "high"

PaymentSeverity(excess_days) == IF excess_days <= 30 THEN "medium" ELSE "high"

check_payment_terms(t) ==
    LET payment_days == Get(t, "payment_terms_days", 30)
        excess_days == payment_days - policy.PAYMENT_TERMS_MAX_DAYS
    IN  IF payment_days > policy.PAYMENT_TERMS_MAX_DAYS
        THEN [compliant |-> FALSE,
              issues |-> << [type |-> "extended_payment_terms",
                             severity |-> PaymentSeverity(excess_days),
                             description |-> <<"Net", payment_days,
                                               "exceeds policy limit of",
                                               policy.PAYMENT_TERMS_MAX_DAYS>>,
                             asc_606_reference |-> Reference("extended_payment_terms")] >>,
              risk_score_contribution |-> PaymentRisk(excess_days)]
        ELSE Compliant

\* mutant: the step of the multiplier taken at 60 days instead of above 60
ReturnRisk_at60(return_days) ==
    IF return_days >= 60
    THEN (RISK_WEIGHTS.right_of_return * 3 * Pt) \div 2
    ELSE RISK_WEIGHTS.right_of_return * Pt

\* multiplier = 1.5 if return_days > 60 else 1.0; weight * multiplier
ReturnRisk(return_days) ==
    IF return_days > 60
    THEN (RISK_WEIGHTS.right_of_return * 3 * Pt) \div 2
    ELSE RISK_WEIGHTS.right_of_return * Pt

ReturnSeverity(return_days) == IF return_days > 60 THEN "high" ELSE "medium"

\* mutant: a return period found in the record counts as a return right
HasReturnRights_or_period(t) ==
    Get(t, "has_return_rights", FALSE) \/ "return_period_days" \in DOMAIN t

HasReturnRights(t) == Get(t, "has_return_rights", FALSE)

check_return_rights(t) ==
    LET return_days == Get(t, "return_period_days", 0)
    IN  IF ~HasReturnRights(t) THEN Compliant
        ELSE IF return_days > policy.RETURN_PERIOD_MAX_DAYS
        THEN [compliant |-> FALSE,
              issues |-> << [type |-> "extended_return_period",
                             severity |-> ReturnSeverity(return_days),
                             description |-> <<return_days,
                                               "day return period exceeds policy limit of",
                                               policy.RETURN_PERIOD_MAX_DAYS>>,
                             asc_606_reference |-> Reference("right_of_return")] >>,
              risk_score_contribution |-> ReturnRisk(return_days)]
        ELSE Compliant

MfcIssue ==
    [type |-> "mfc_clause", severity |-> "high",
     description |-> <<"Most Favored Customer clause creates open-ended variable consideration">>,
     asc_606_reference |-> Reference("price_protection")]

MilestoneIssue ==
    [type |-> "milestone_payments", severity |-> "medium",
     description |-> <<"Milestone-based payments may require constraint on variable consideration">>,
     asc_606_reference |-> Reference("milestone_payments")]

ConsignmentIssue ==
    [type |-> "consignment", severity |-> "high",
     description |-> <<"Consignment arrangement fails transfer of control criteria">>,
     asc_606_reference |-> Reference("consignment")]

EscalationIssue(escalation) ==
    [type |-> "high_escalation", severity |-> "medium",
     description |-> <<escalation, "annual escalation exceeds policy threshold",
                       policy.AUTO_ESCALATION_MAX_PERCENT>>,
     asc_606_reference |-> None]

\* the four conditions of check_variable_consideration, in the order tested
MfcFires(t) == Get(t, "mfc_clause", FALSE)

MilestoneFires(t) == Get(t, "milestone_based", FALSE)

ConsignmentFires(t) == Get(t, "consignment", FALSE)

\* mutant: an escalation equal to the cap already counts as above it
EscalationFires_at_cap(t) ==
    Get(t, "annual_escalation_percent", 0) >= policy.AUTO_ESCALATION_MAX_PERCENT

EscalationFires(t) ==
    Get(t, "annual_escalation_percent", 0) > policy.AUTO_ESCALATION_MAX_PERCENT

\* mutant: a milestone-based contract is marked non-compliant too
VariableCompliant_milestone(t) ==
    ~MfcFires(t) /\ ~ConsignmentFires(t) /\ ~MilestoneFires(t)

VariableCompliant(t) == ~MfcFires(t) /\ ~ConsignmentFires(t)

\* mutant: the checker caps its own contribution, as the payment checker does
VariableRisk_capped(t) ==
    Min((IF MfcFires(t) THEN RISK_WEIGHTS.mfc_clause * Pt ELSE 0)
        + (IF MilestoneFires(t) THEN RISK_WEIGHTS.milestone_payments * Pt ELSE 0)
        + (IF ConsignmentFires(t) THEN RISK_WEIGHTS.consignment * Pt ELSE 0)
        + (IF EscalationFires(t) THEN RISK_WEIGHTS.auto_renewal_high_escalation * Pt ELSE 0),
        50 * Pt)

VariableRisk(t) ==
    (IF MfcFires(t) THEN RISK_WEIGHTS.mfc_clause * Pt ELSE 0)
    + (IF MilestoneFires(t) THEN RISK_WEIGHTS.milestone_payments * Pt ELSE 0)
    + (IF ConsignmentFires(t) THEN RISK_WEIGHTS.consignment * Pt ELSE 0)
    + (IF EscalationFires(t) THEN RISK_WEIGHTS.auto_renewal_high_escalation * Pt ELSE 0)

check_variable_consideration(t) ==
    [compliant |-> VariableCompliant(t),
     issues |->
        (IF MfcFires(t) THEN <<MfcIssue>> ELSE <<>>)
        \o (IF MilestoneFires(t) THEN <<MilestoneIssue>> ELSE <<>>)
        \o (IF ConsignmentFires(t) THEN <<ConsignmentIssue>> ELSE <<>>)
        \o (IF EscalationFires(t)
            THEN <<EscalationIssue(Get(t, "annual_escalation_percent", 0))>>
            ELSE <<>>),
     risk_score_contribution |-> VariableRisk(t)]

\* total_score of calculate_risk_score: the float sum, left to right
TotalScore(p, r, v) ==
    FloatAdd(FloatAdd(Get(p, "risk_score_contribution", 0),
                      Get(r, "risk_score_contribution", 0)),
             Get(v, "risk_score_contribution", 0))

\* mutant: round(total_score), halves rounded up
ScoreOfTotal_round(total_score) == (total_score + Pt \div 2) \div Pt

\* int(total_score)
ScoreOfTotal(total_score) == IntOf(total_score)

\* mutant: the cap at 100 left out
calculate_risk_score_uncapped(p, r, v) == ScoreOfTotal(TotalScore(p, r, v))

calculate_risk_score(p, r, v) == Min(ScoreOfTotal(TotalScore(p, r, v)), 100)

-----------------------------------------------------------------------------
(* Term records: every subset of the fields the checkers read *)

PaymentDayValues ==
    {d \in 0..MaxPaymentDays : d % 30 = 0 \/ d \in {61, 91, 100, MaxPaymentDays}}

ReturnDayValues == {d \in 0..MaxReturnDays : d % 30 = 0 \/ d \in {31, 61, MaxReturnDays}}

EscalationValues ==
    {e \in 0..MaxEscalationTenths : e % 50 = 0 \/ e \in {30, 31, MaxEscalationTenths}}

Field(k, values) == {EmptyDict} \cup {k :> x : x \in values}

TermRecords ==
    {p @@ h @@ r @@ m @@ ms @@ c @@ e :
        p \in Field("payment_terms_days", PaymentDayValues),
        h \in Field("has_return_rights", BOOLEAN),
        r \in Field("return_period_days", ReturnDayValues),
        m \in Field("mfc_clause", {TRUE}),
        ms \in Field("milestone_based", {TRUE}),
        c \in Field("consignment", {TRUE, FALSE}),
        e \in Field("annual_escalation_percent", EscalationValues)}

-----------------------------------------------------------------------------
(* No analysis is running: the values of the run_analysis variables in the  *)
(* specifications that only call the pure functions.                        *)

NoResult == [kind |-> "none"]

RunIdle ==
    /\ contract_id = None
    /\ use_demo = FALSE
    /\ api_key_set = FALSE
    /\ state = EmptyDict
    /\ result = NoResult
    /\ stdout = <<>>
    /\ responses = EmptyDict
    /\ earlier = NoResult
    /\ received = NoResult

-----------------------------------------------------------------------------
(* A caller of the pure functions: it holds one policy and one term record, *)
(* calls the three checkers, the aggregator and the mapper, in that order.  *)

InitTools ==
    /\ policy \in Policies
    /\ Imported
    /\ terms \in TermRecords
    /\ pc = "terms"
    /\ payment_check = EmptyDict
    /\ return_check = EmptyDict
    /\ variable_check = EmptyDict
    /\ risk_score = 0
    /\ recommendation = None
    /\ RunIdle

CallCheckPaymentTerms ==
    /\ pc = "terms"
    /\ payment_check' = check_payment_terms(terms)
    /\ pc' = "payment_checked"
    /\ UNCHANGED <<policy_file, policy, terms, return_check, variable_check, risk_score, recommendation>>
    /\ UNCHANGED runVars

CallCheckReturnRights ==
    /\ pc = "payment_checked"
    /\ return_check' = check_return_rights(terms)
    /\ pc' = "return_checked"
    /\ UNCHANGED <<policy_file, policy, terms, payment_check, variable_check, risk_score, recommendation>>
    /\ UNCHANGED runVars

CallCheckVariableConsideration ==
    /\ pc = "return_checked"
    /\ variable_check' = check_variable_consideration(terms)
    /\ pc' = "variable_checked"
    /\ UNCHANGED <<policy_file, policy, terms, payment_check, return_check, risk_score, recommendation>>
    /\ UNCHANGED runVars

CallCalculateRiskScore ==
    /\ pc = "variable_checked"
    /\ risk_score' = calculate_risk_score(payment_check, return_check, variable_check)
    /\ pc' = "scored"
    /\ UNCHANGED <<policy_file, policy, terms, payment_check, return_check, variable_check, recommendation>>
    /\ UNCHANGED runVars

CallGetRecommendation ==
    /\ pc = "scored"
    /\ recommendation' = get_recommendation_from_score(risk_score)
    /\ pc' = "recommended"
    /\ UNCHANGED <<policy_file, policy, terms, payment_check, return_check, variable_check, risk_score>>
    /\ UNCHANGED runVars

NextTools ==
    \/ CallCheckPaymentTerms
    \/ CallCheckReturnRights
    \/ CallCheckVariableConsideration
    \/ CallCalculateRiskScore
    \/ CallGetRecommendation

SpecTools == InitTools /\ [][NextTools]_vars

-----------------------------------------------------------------------------
(* Start of the program: config.py is imported, which loads the policy file; *)
(* tools.py imports config.py, so the checkers exist only after it.          *)

PolicyDocuments ==
    {p @@ r @@ e @@ v @@ a :
        p \in Field("payment_terms_max_days", {30, 90}),
        r \in Field("return_period_max_days", {61}),
        e \in Field("auto_escalation_max_percent", {50}),
        v \in Field("variable_consideration_threshold_percent", {5}),
        a \in Field("asc_606_risk_factors", {FullRiskFactors})}

PolicyFiles ==
    {MissingFile, InvalidJsonFile, NonObjectFile}
    \cup {ObjectFile(doc) : doc \in PolicyDocuments}

\* the records the checkers are called on after the import
ConfigTerms ==
    {EmptyDict,
     ("payment_terms_days" :> 61) @@ ("has_return_rights" :> TRUE)
     @@ ("return_period_days" :> 61) @@ ("annual_escalation_percent" :> 31)}

InitConfig ==
    /\ policy_file \in PolicyFiles
    /\ policy = EmptyDict
    /\ pc = "import"
    /\ terms \in ConfigTerms
    /\ payment_check = EmptyDict
    /\ return_check = EmptyDict
    /\ variable_check = EmptyDict
    /\ risk_score = 0
    /\ recommendation = None
    /\ RunIdle

\* from .config import ...: an exception ends the program
ImportConfig ==
    /\ pc = "import"
    /\ LET outcome == import_config(policy_file)
       IN  IF outcome.kind = "raised"
           THEN /\ result' = outcome
                /\ pc' = "import_failed"
                /\ UNCHANGED policy
           ELSE /\ policy' = outcome.value
                /\ pc' = "terms"
                /\ UNCHANGED result
    /\ UNCHANGED <<policy_file, toolVars, contract_id, use_demo, api_key_set, state, stdout,
                   responses, earlier, received>>

NextConfig ==
    \/ ImportConfig
    \/ CallCheckPaymentTerms
    \/ CallCheckReturnRights
    \/ CallCheckVariableConsideration
    \/ CallCalculateRiskScore
    \/ CallGetRecommendation

SpecConfig == InitConfig /\ [][NextConfig]_vars

-----------------------------------------------------------------------------
(* The caller of the pure functions under policies that differ in the       *)
(* reference table: the full table, no table, and a table keyed by the      *)
(* issue types with one entry that has no reference.                        *)

IssueTypeRiskFactors ==
    [extended_payment_terms |-> [reference |-> "ref_extended_payment_terms"],
     extended_return_period |-> [reference |-> "ref_extended_return_period"],
     mfc_clause |-> [reference |-> "ref_mfc_clause"],
     milestone_payments |-> [note |-> "no reference"],
     high_escalation |-> [reference |-> "ref_high_escalation"]]

ReferenceDocuments ==
    {EmptyDict,
     "asc_606_risk_factors" :> FullRiskFactors,
     "asc_606_risk_factors" :> IssueTypeRiskFactors}

InitReferences ==
    /\ policy_file \in {ObjectFile(doc) : doc \in ReferenceDocuments}
    /\ policy = import_config(policy_file).value
    /\ terms \in {t \in TermRecords :
                    /\ Get(t, "payment_terms_days", 30) \in {30, 100}
                    /\ Get(t, "return_period_days", 0) \in {0, MaxReturnDays}
                    /\ Get(t, "annual_escalation_percent", 0) \in {0, MaxEscalationTenths}}
    /\ pc = "terms"
    /\ payment_check = EmptyDict
    /\ return_check = EmptyDict
    /\ variable_check = EmptyDict
    /\ risk_score = 0
    /\ recommendation = None
    /\ RunIdle

SpecReferences == InitReferences /\ [][NextTools]_vars

-----------------------------------------------------------------------------
(* A caller of the recommendation mapper alone, on any integer score *)

ScoreInputs == (0 - MinScoreBelow)..(100 + MaxScoreAbove)

InitMapper ==
    /\ policy = DefaultPolicy
    /\ Imported
    /\ terms = EmptyDict
    /\ pc = "scored"
    /\ payment_check = EmptyDict
    /\ return_check = EmptyDict
    /\ variable_check = EmptyDict
    /\ risk_score \in ScoreInputs
    /\ recommendation = None
    /\ RunIdle

NextMapper == CallGetRecommendation

SpecMapper == InitMapper /\ [][NextMapper]_vars

\* A caller that also asks for the risk level of the same score, before or
\* after the recommendation
CallGetRiskLevel ==
    /\ pc \in {"scored", "recommended"}
    /\ result = NoResult
    /\ result' = Returned(get_risk_level(risk_score))
    /\ UNCHANGED <<policy_file, policy, pc, toolVars>>
    /\ UNCHANGED <<contract_id, use_demo, api_key_set, state, stdout, responses, earlier, received>>

NextLevels == CallGetRecommendation \/ CallGetRiskLevel

SpecLevels == InitMapper /\ [][NextLevels]_vars

-----------------------------------------------------------------------------
(* tools.py: extract_contract_terms.  A contract text is represented by what *)
(* the patterns of the extractor find in it: a dict from pattern name to the *)
(* first match's captured group (TRUE for a pattern without a group); a      *)
(* pattern that does not match is absent.  A captured name or amount is the  *)
(* sequence of its characters (a word counts as one character).              *)

Found(text, pattern) == pattern \in DOMAIN text

\* str.strip(): leading and trailing blanks removed
RECURSIVE Strip(_)
Strip(chars) ==
    IF chars = <<>> THEN <<>>
    ELSE IF Head(chars) = " " THEN Strip(Tail(chars))
    ELSE IF chars[Len(chars)] = " " THEN Strip(SubSeq(chars, 1, Len(chars) - 1))
    ELSE chars

\* mutant: the placeholder of the display layer used for a missing role label
ExtractParties_na(text) ==
    IF Found(text, "parties_section")
    THEN "parties" :>
            [provider |-> IF Found(text, "provider_label")
                          THEN Strip(text["provider_label"]) ELSE <<"N/A">>,
             customer |-> IF Found(text, "customer_label")
                          THEN Strip(text["customer_label"]) ELSE <<"N/A">>]
    ELSE EmptyDict

\* parties: the role labels are searched only inside the PARTIES section
ExtractParties(text) ==
    IF Found(text, "parties_section")
    THEN "parties" :>
            [provider |-> IF Found(text, "provider_label")
                          THEN Strip(text["provider_label"]) ELSE <<"Unknown">>,
             customer |-> IF Found(text, "customer_label")
                          THEN Strip(text["customer_label"]) ELSE <<"Unknown">>]
    ELSE EmptyDict

ExtractEffectiveDate(text) ==
    IF Found(text, "effective_date") THEN "effective_date" :> text["effective_date"]
    ELSE EmptyDict

\* term: the word Perpetual counts only when no term in months is found
ExtractTerm(text) ==
    IF Found(text, "term_months") THEN "term_months" :> text["term_months"]
    ELSE IF Found(text, "perpetual_word")
         THEN ("term_months" :> 0) @@ ("perpetual_license" :> TRUE)
         ELSE EmptyDict

\* terms['payment_terms_days'] = int(payment_match.group(1))
ExtractPayment(text) ==
    IF Found(text, "net_days") THEN "payment_terms_days" :> text["net_days"]
    ELSE EmptyDict

\* value_patterns, in the order the loop tries them
ValuePatterns == <<"total", "annual", "license_fee", "subscription_fee">>

\* the patterns of the loop that match somewhere in the text
ValueMatching(text) == {i \in 1..Len(ValuePatterns) : Found(text, ValuePatterns[i])}

\* the group captured by the first pattern of the loop that matches; the loop
\* breaks after it
ValueCapture(text) ==
    LET first == CHOOSE i \in ValueMatching(text) : \A j \in ValueMatching(text) : i <= j
    IN  text[ValuePatterns[first]]

\* match.group(1).replace(',', '')
RemoveCommas(chars) == SelectSeq(chars, LAMBDA c : c # ",")

DigitValue(c) ==
    CASE c = "0" -> 0 [] c = "1" -> 1 [] c = "2" -> 2 [] c = "5" -> 5 [] c = "9" -> 9

\* float(digits) for a non-empty string of digits (whole dollars)
RECURSIVE FloatOfDigits(_)
FloatOfDigits(digits) ==
    IF digits = <<>> THEN 0
    ELSE 10 * FloatOfDigits(SubSeq(digits, 1, Len(digits) - 1))
         + DigitValue(digits[Len(digits)])

\* float('') raises ValueError: the captured group held nothing but commas
TotalValueRaises(text) ==
    /\ ValueMatching(text) # {}
    /\ RemoveCommas(ValueCapture(text)) = <<>>

ExtractTotalValue(text) ==
    IF ValueMatching(text) = {} THEN EmptyDict
    ELSE "total_value" :> FloatOfDigits(RemoveCommas(ValueCapture(text)))

\* return rights: the period is searched only when the phrase is present
ExtractReturn(text) ==
    IF Found(text, "return_phrase")
    THEN ("has_return_rights" :> TRUE)
         @@ (IF Found(text, "days_of_delivery")
             THEN "return_period_days" :> text["days_of_delivery"]
             ELSE EmptyDict)
    ELSE EmptyDict

\* auto-renewal: the escalation is searched only when the phrase is present
ExtractRenewal(text) ==
    IF Found(text, "auto_renew")
    THEN ("auto_renewal" :> TRUE)
         @@ (IF Found(text, "escalation")
             THEN "annual_escalation_percent" :> text["escalation"]
             ELSE EmptyDict)
    ELSE EmptyDict

ExtractConsignment(text) ==
    IF Found(text, "consignment_phrase") THEN "consignment" :> TRUE ELSE EmptyDict

ExtractMfc(text) ==
    IF Found(text, "mfc_phrase")
    THEN ("mfc_clause" :> TRUE) @@ ("price_protection" :> TRUE)
    ELSE EmptyDict

ExtractMilestone(text) ==
    IF Found(text, "milestone_phrase") THEN "milestone_based" :> TRUE ELSE EmptyDict

\* mutant: the unlimited phrase is recorded whether or not a cap is found
ExtractLiability_independent(text) ==
    (IF Found(text, "liability_cap") THEN "liability_cap" :> text["liability_cap"]
     ELSE EmptyDict)
    @@ (IF Found(text, "unlimited_liability_phrase") THEN "unlimited_liability" :> TRUE
        ELSE EmptyDict)

\* liability: the unlimited phrase counts only when no cap is found
ExtractLiability(text) ==
    IF Found(text, "liability_cap") THEN "liability_cap" :> text["liability_cap"]
    ELSE IF Found(text, "unlimited_liability_phrase") THEN "unlimited_liability" :> TRUE
    ELSE EmptyDict

\* the dict terms at the return statement
ExtractedTerms(text) ==
    ExtractParties(text) @@ ExtractEffectiveDate(text) @@ ExtractTerm(text)
    @@ ExtractPayment(text) @@ ExtractTotalValue(text) @@ ExtractReturn(text)
    @@ ExtractRenewal(text) @@ ExtractConsignment(text) @@ ExtractMfc(text)
    @@ ExtractMilestone(text) @@ ExtractLiability(text)

extract_contract_terms(text) ==
    IF TotalValueRaises(text) THEN Raised("ValueError")
    ELSE Returned(ExtractedTerms(text))

\* The contract files (data/contracts/*.txt): what each may contain
WellFormedTexts ==
    {n @@ r @@ a @@ c @@ m @@ ms :
        n \in Field("net_days", {30, 100}),
        r \in {EmptyDict,
               "return_phrase" :> TRUE,
               ("return_phrase" :> TRUE) @@ ("days_of_delivery" :> 90)},
        a \in {EmptyDict,
               ("auto_renew" :> TRUE) @@ ("escalation" :> 50)},
        c \in Field("consignment_phrase", {TRUE}),
        m \in Field("mfc_phrase", {TRUE}),
        ms \in Field("milestone_phrase", {TRUE})}

\* a contract whose total is left blank: "Total: ,"
BlankTotalText == "total" :> <<",">>

ContractTexts == WellFormedTexts \cup {BlankTotalText}

-----------------------------------------------------------------------------
(* A caller of extract_contract_terms alone, on any string: the texts differ *)
(* in the parties, value, term and liability patterns that match.            *)

PartyNames == {<<"Acme">>, <<"Acme", " ">>}

PartiesTexts ==
    {EmptyDict, "provider_label" :> <<"Acme">>}
    \cup {("parties_section" :> TRUE) @@ p @@ c :
             p \in Field("provider_label", PartyNames),
             c \in Field("customer_label", {<<"Bolt">>})}

ValueTexts ==
    {t @@ a @@ s :
        t \in Field("total", {<<",">>, <<"1", ",", "2", "0", "0">>}),
        a \in Field("annual", {<<"5", "0">>}),
        s \in Field("subscription_fee", {<<",", ",">>, <<"9">>})}
    \cup {"license_fee" :> <<"2", "5">>}

TermTexts ==
    {t @@ w : t \in Field("term_months", {12}), w \in Field("perpetual_word", {TRUE})}

LiabilityTexts ==
    {c @@ u : c \in Field("liability_cap", {"12 months of fees"}),
              u \in Field("unlimited_liability_phrase", {TRUE})}

ExtractTexts ==
    {p @@ v @@ t @@ l @@ d @@ r :
        p \in PartiesTexts, v \in ValueTexts, t \in TermTexts, l \in LiabilityTexts,
        d \in Field("effective_date", {"2024-01-15"}),
        r \in {EmptyDict, "days_of_delivery" :> 90,
               ("return_phrase" :> TRUE) @@ ("days_of_delivery" :> 90),
               ("mfc_phrase" :> TRUE) @@ ("escalation" :> 50),
               ("return_phrase" :> TRUE) @@ ("days_of_delivery" :> 90)
               @@ ("mfc_phrase" :> TRUE) @@ ("auto_renew" :> TRUE)
               @@ ("escalation" :> 50)}}

InitExtract ==
    /\ policy = DefaultPolicy
    /\ Imported
    /\ pc = "text"
    /\ terms = EmptyDict
    /\ payment_check = EmptyDict
    /\ return_check = EmptyDict
    /\ variable_check = EmptyDict
    /\ risk_score = 0
    /\ recommendation = None
    /\ contract_id = None
    /\ use_demo = FALSE
    /\ api_key_set = FALSE
    /\ state \in {[contract_text |-> text] : text \in ExtractTexts}
    /\ result = NoResult
    /\ stdout = <<>>
    /\ responses = EmptyDict
    /\ earlier = NoResult
    /\ received = NoResult

CallExtractContractTerms ==
    /\ pc = "text"
    /\ result' = extract_contract_terms(state.contract_text)
    /\ pc' = "extracted"
    /\ UNCHANGED <<policy_file, policy, toolVars, contract_id, use_demo, api_key_set, state, stdout,
                   responses, earlier, received>>

NextExtract == CallExtractContractTerms

SpecExtract == InitExtract /\ [][NextExtract]_vars

-----------------------------------------------------------------------------
(* agent.py: values exchanged with the language model.  A response either   *)
(* is an exception of llm.invoke, or carries a content that json.loads      *)
(* rejects (text) or parses to a Python value (json).  Python values are    *)
(* tagged with their type.                                                  *)

PyList(items) == [py |-> "list", items |-> items]

PyDict(fields) == [py |-> "dict", fields |-> fields]

PyInt(n) == [py |-> "int", value |-> n]

LlmError == [kind |-> "error"]

LlmText == [kind |-> "text", content |-> "raw model output"]

LlmFenced == [kind |-> "text", content |-> "fenced json verdict"]

LlmJson(v) == [kind |-> "json", value |-> v]

\* len(x): defined for lists and dicts, a TypeError for a number
HasLen(x) == x.py \in {"list", "dict"}

LenOf(x) == IF x.py = "list" THEN Len(x.items) ELSE Cardinality(DOMAIN x.fields)

AdvocateValues ==
    {PyList(<< [point |-> "Payment terms", argument |-> "Industry standard",
                strength |-> "strong"] >>),
     PyList(<< [point |-> "Returns", argument |-> "Limited exposure",
                strength |-> "decisive"] >>),
     PyInt(7)}

AuditorValues ==
    {PyList(<< [clause |-> "Payment", risk_level |-> "high",
                finding |-> "Financing component", asc_606_reference |-> "ASC 606-10-32-15",
                exact_quote |-> "Net 100 days", suggested_revision |-> "Net 60"] >>),
     PyList(<< >>),
     PyInt(7)}

Recommendations == {"approve", "legal_review", "reject"}

ModelVerdict(score, rec) ==
    PyDict([risk_score |-> score, confidence |-> 85, recommendation |-> rec,
            reasoning |-> "model reasoning", key_factors |-> <<"factor">>])

\* what the resolver's model may answer: a verdict with any score and any
\* recommendation, an object without the verdict's keys, a value that is no object
ResolverValues ==
    {ModelVerdict(score, rec) : score \in {10, 50, 80}, rec \in Recommendations}
    \cup {PyDict(EmptyDict), PyList(<< >>)}

Responses(values) == {LlmError, LlmText} \cup {LlmJson(v) : v \in values}

\* verdict['recommendation'] and verdict['risk_score'] can be read
IsVerdict(v) ==
    v.py = "dict" /\ {"recommendation", "risk_score"} \subseteq DOMAIN v.fields

-----------------------------------------------------------------------------
(* agent.py: run_analysis, run_demo_analysis, run_live_analysis *)

\* CONTRACT_FILES of config.py (two of its eight keys)
KnownContracts == {"standard_saas", "consignment"}

ContractIds == KnownContracts \cup {"no_such_contract"}

\* data/demo_results.json: one precomputed result per known contract
DemoResults ==
    [id \in KnownContracts |->
        [source |-> "demo_results.json",
         advocate_arguments |-> PyList(<< [point |-> "Terms", argument |-> "Standard",
                                           strength |-> "strong"] >>),
         auditor_findings |-> PyList(<< >>),
         resolver_verdict |->
            IF id = "consignment"
            THEN [risk_score |-> 85, confidence |-> 90, recommendation |-> "reject",
                  reasoning |-> "precomputed", key_factors |-> <<"factor">>]
            ELSE [risk_score |-> 12, confidence |-> 95, recommendation |-> "approve",
                  reasoning |-> "precomputed", key_factors |-> <<"factor">>],
         trace |-> << [step |-> 1, tool |-> "extract_contract_terms",
                       summary |-> <<"precomputed">>] >>]]

\* mutant: an identifier without a precomputed result gets the first one
run_demo_analysis_default(id) ==
    IF id \in DOMAIN DemoResults
    THEN Returned(DemoResults[id])
    ELSE Returned(DemoResults["standard_saas"])

run_demo_analysis(id) ==
    IF id \in DOMAIN DemoResults
    THEN Returned(DemoResults[id])
    ELSE Raised("ValueError")

TraceStep(step, tool, summary) == [step |-> step, tool |-> tool, summary |-> summary]

ComplianceSummary(check) ==
    IF check.compliant THEN <<"Compliant">> ELSE <<"Issues found">>

InitRun ==
    /\ policy \in Policies
    /\ Imported
    /\ pc = "start"
    /\ terms = EmptyDict
    /\ payment_check = EmptyDict
    /\ return_check = EmptyDict
    /\ variable_check = EmptyDict
    /\ risk_score = 0
    /\ recommendation = None
    /\ contract_id \in ContractIds
    /\ use_demo \in BOOLEAN
    /\ api_key_set \in BOOLEAN
    /\ state = EmptyDict
    /\ result = NoResult
    /\ stdout = <<>>
    /\ responses = EmptyDict
    /\ earlier = NoResult
    /\ received = NoResult

\* run_analysis: use_demo or no API key
RunDemo ==
    /\ pc = "start"
    /\ use_demo \/ ~api_key_set
    /\ result' = run_demo_analysis(contract_id)
    /\ pc' = "done"
    /\ UNCHANGED <<policy_file, policy, toolVars, contract_id, use_demo, api_key_set, earlier, received, state, stdout, responses>>

\* mutant: the failure is logged and raised again
FallBackToDemo_reraise(error) ==
    /\ stdout' = Append(stdout, <<"Live analysis failed", error, "falling back to demo mode">>)
    /\ result' = Raised(error)
    /\ pc' = "done"

\* run_analysis: except Exception as e: print(...); return run_demo_analysis(..)
FallBackToDemo(error) ==
    /\ stdout' = Append(stdout, <<"Live analysis failed", error, "falling back to demo mode">>)
    /\ result' = run_demo_analysis(contract_id)
    /\ pc' = "done"

Live == ~use_demo /\ api_key_set

\* run_live_analysis: the imports of lines 56-73 fail; except ImportError
\* returns the demo result, and an unknown contract's ValueError raised there
\* is caught by run_analysis, which tries the demo result again
LiveImportError ==
    /\ pc = "start"
    /\ Live
    /\ IF contract_id \in DOMAIN DemoResults
       THEN /\ result' = run_demo_analysis(contract_id)
            /\ pc' = "done"
            /\ UNCHANGED stdout
       ELSE FallBackToDemo("ValueError")
    /\ UNCHANGED <<policy_file, policy, toolVars, contract_id, use_demo, api_key_set, earlier, received, state, responses>>

\* run_live_analysis: ChatAnthropic(...) or load_contract raises
LiveSetupFails ==
    /\ pc = "start"
    /\ Live
    /\ \E error \in {"ValueError", "FileNotFoundError", "Exception"} :
          /\ error = "ValueError" => contract_id \notin KnownContracts
          /\ error = "FileNotFoundError" => contract_id \in KnownContracts
          /\ FallBackToDemo(error)
    /\ UNCHANGED <<policy_file, policy, toolVars, contract_id, use_demo, api_key_set, earlier, received, state, responses>>

\* run_live_analysis: the contract is loaded and the graph is invoked
LiveStartFrom(texts) ==
    /\ pc = "start"
    /\ Live
    /\ contract_id \in KnownContracts
    /\ \E text \in texts :
          state' = [contract_id |-> contract_id, contract_text |-> text, trace |-> <<>>]
    /\ pc' = "extract"
    /\ UNCHANGED <<policy_file, policy, toolVars, contract_id, use_demo, api_key_set, earlier, received,
                   result, stdout, responses>>

LiveStart == LiveStartFrom(ContractTexts)

\* a node let an exception escape: graph.invoke raises, run_live_analysis does
\* not catch it (it is no ImportError), run_analysis falls back to demo
NodeRaises(error) ==
    /\ FallBackToDemo(error)
    /\ UNCHANGED state

\* a node was handed the object `before`; when the node returned or raised,
\* that same object held `after`
Handed(node, before, after) == [node |-> node, before |-> before, after |-> after]

\* state[key] = value on the dict the node was handed
SetItem(st, key, value) == (key :> value) @@ st

\* state["trace"].append(step) on the list of the dict the node was handed
AppendTrace(st, step) == [st EXCEPT !.trace = Append(@, step)]

extraction_node ==
    /\ pc = "extract"
    /\ LET outcome == extract_contract_terms(state.contract_text)
       IN  IF outcome.kind = "raised"
           THEN /\ NodeRaises(outcome.error)
                /\ received' = Handed("extract", state, state)
           ELSE /\ state' = AppendTrace(SetItem(state, "extracted_terms", outcome.value),
                                        TraceStep(1, "extract_contract_terms",
                                                  <<"Extracted key terms from contract">>))
                /\ received' = Handed("extract", state, state')
                /\ pc' = "policy_check"
                /\ UNCHANGED <<result, stdout>>
    /\ UNCHANGED <<policy_file, policy, toolVars, contract_id, use_demo, api_key_set, earlier, responses>>

policy_check_node ==
    /\ pc = "policy_check"
    /\ LET t == state.extracted_terms
           p == check_payment_terms(t)
           s1 == AppendTrace(state, TraceStep(2, "check_payment_terms",
                                              ComplianceSummary(p)))
           r == check_return_rights(t)
           s2 == AppendTrace(s1, TraceStep(3, "check_return_rights", ComplianceSummary(r)))
           v == check_variable_consideration(t)
           s3 == AppendTrace(s2, TraceStep(4, "check_variable_consideration",
                                           ComplianceSummary(v)))
       IN  state' = SetItem(SetItem(SetItem(s3, "_payment_check", p), "_return_check", r),
                            "_variable_check", v)
    /\ received' = Handed("policy_check", state, state')
    /\ pc' = "debate"
    /\ UNCHANGED <<policy_file, policy, toolVars, contract_id, use_demo, api_key_set, earlier,
                   result, stdout, responses>>

\* mutant: the degraded argument classified as weak
DegradedArguments_weak(content) ==
    PyList(<< [point |-> "Analysis", argument |-> content, strength |-> "weak"] >>)

\* advocate_node, except json.JSONDecodeError: one argument holding the output
DegradedArguments(content) ==
    PyList(<< [point |-> "Analysis", argument |-> content, strength |-> "moderate"] >>)

advocate_node ==
    /\ pc = "debate"
    /\ "advocate_arguments" \notin DOMAIN state
    /\ \E response \in Responses(AdvocateValues) :
          /\ responses' = ("advocate" :> response) @@ responses
          /\ IF response.kind = "error"
             THEN /\ NodeRaises("TimeoutError")
                  /\ received' = Handed("advocate", state, state)
             ELSE LET arguments == IF response.kind = "json" THEN response.value
                                   ELSE DegradedArguments(response.content)
                      assigned == SetItem(state, "advocate_arguments", arguments)
                  IN  IF ~HasLen(arguments)
                      THEN /\ NodeRaises("TypeError")
                           /\ received' = Handed("advocate", state, assigned)
                      ELSE /\ state' = AppendTrace(assigned,
                                          TraceStep(5, "generate_advocate_argument",
                                                    <<"Generated", LenOf(arguments),
                                                      "arguments">>))
                           /\ received' = Handed("advocate", state, state')
                           /\ UNCHANGED <<pc, result, stdout>>
    /\ UNCHANGED <<policy_file, policy, toolVars, contract_id, use_demo, api_key_set, earlier>>

\* auditor_node, except json.JSONDecodeError: one finding holding the output
DegradedFindings(content) ==
    PyList(<< [clause |-> "Analysis", risk_level |-> "medium", finding |-> content] >>)

auditor_node ==
    /\ pc = "debate"
    /\ "auditor_findings" \notin DOMAIN state
    /\ \E response \in Responses(AuditorValues) :
          /\ responses' = ("auditor" :> response) @@ responses
          /\ IF response.kind = "error"
             THEN /\ NodeRaises("TimeoutError")
                  /\ received' = Handed("auditor", state, state)
             ELSE LET findings == IF response.kind = "json" THEN response.value
                                  ELSE DegradedFindings(response.content)
                      assigned == SetItem(state, "auditor_findings", findings)
                  IN  IF ~HasLen(findings)
                      THEN /\ NodeRaises("TypeError")
                           /\ received' = Handed("auditor", state, assigned)
                      ELSE /\ state' = AppendTrace(assigned,
                                          TraceStep(6, "generate_auditor_findings",
                                                    <<"Found", LenOf(findings), "issues">>))
                           /\ received' = Handed("auditor", state, state')
                           /\ UNCHANGED <<pc, result, stdout>>
    /\ UNCHANGED <<policy_file, policy, toolVars, contract_id, use_demo, api_key_set, earlier>>

\* mutant: the upper threshold of the mapping used where the lower one belongs
FallbackRecommendation_at60(score) == IF score > 60 THEN "legal_review" ELSE "approve"

\* "legal_review" if risk_score > 30 else "approve"
FallbackRecommendation(score) == IF score > 30 THEN "legal_review" ELSE "approve"

\* the fallback verdict, were the auditor's findings counted into the score
FallbackVerdict_counts_findings(st, content) ==
    LET score == calculate_risk_score(Get(st, "_payment_check", EmptyDict),
                                      Get(st, "_return_check", EmptyDict),
                                      Get(st, "_variable_check", EmptyDict))
                 + 5 * LenOf(st["auditor_findings"])
    IN  PyDict([risk_score |-> score,
                confidence |-> 70,
                recommendation |-> FallbackRecommendation(score),
                reasoning |-> content,
                key_factors |-> <<"See detailed analysis">>])

\* the verdict resolver_node builds when json.loads rejects the response
FallbackVerdict(st, content) ==
    LET score == calculate_risk_score(Get(st, "_payment_check", EmptyDict),
                                      Get(st, "_return_check", EmptyDict),
                                      Get(st, "_variable_check", EmptyDict))
    IN  PyDict([risk_score |-> score,
                confidence |-> 70,
                recommendation |-> FallbackRecommendation(score),
                reasoning |-> content,
                key_factors |-> <<"See detailed analysis">>])

\* what llm.invoke may give the resolver: as the other nodes, and a verdict
\* wrapped in a Markdown fence, which json.loads rejects as well
ResolverResponses == Responses(ResolverValues) \cup {LlmFenced}

resolver_node ==
    /\ pc = "debate"
    /\ {"advocate_arguments", "auditor_findings"} \subseteq DOMAIN state
    /\ \E response \in ResolverResponses :
          /\ responses' = ("resolver" :> response) @@ responses
          /\ IF response.kind = "error"
             THEN /\ NodeRaises("TimeoutError")
                  /\ received' = Handed("resolver", state, state)
             ELSE LET verdict == IF response.kind = "json" THEN response.value
                                 ELSE FallbackVerdict(state, response.content)
                  IN  IF ~IsVerdict(verdict)
                      THEN /\ NodeRaises(IF verdict.py = "dict" THEN "KeyError"
                                         ELSE "TypeError")
                           /\ received' = Handed("resolver", state,
                                                 SetItem(state, "resolver_verdict", verdict))
                      ELSE /\ state' = AppendTrace(
                                          SetItem(state, "resolver_verdict", verdict.fields),
                                          TraceStep(7, "resolve_debate",
                                                    <<"Verdict", verdict.fields.recommendation,
                                                      "score", verdict.fields.risk_score>>))
                           /\ received' = Handed("resolver", state, state')
                           /\ pc' = "end"
                           /\ UNCHANGED <<result, stdout>>
    /\ UNCHANGED <<policy_file, policy, toolVars, contract_id, use_demo, api_key_set, earlier>>

\* final_state = graph.invoke(initial_state); return final_state
ReturnFinalState ==
    /\ pc = "end"
    /\ result' = Returned(state)
    /\ pc' = "done"
    /\ UNCHANGED <<policy_file, policy, toolVars, contract_id, use_demo, api_key_set, earlier, received,
                   state, stdout, responses>>

Init == InitRun

Next ==
    \/ RunDemo
    \/ LiveImportError
    \/ LiveSetupFails
    \/ LiveStart
    \/ extraction_node
    \/ policy_check_node
    \/ advocate_node
    \/ auditor_node
    \/ resolver_node
    \/ ReturnFinalState

Spec == Init /\ [][Next]_vars

-----------------------------------------------------------------------------
(* Two live analyses of one contract, one after the other: the application  *)
(* calls run_analysis again for the contract it analysed before, the file   *)
(* and the policy being what they were.  The first run's result and the     *)
(* responses the model gave in it are kept for comparison.                  *)

\* the result is the final state of the graph, not a demo result
IsLiveResult(r) == r.kind = "returned" /\ "contract_text" \in DOMAIN r.value

TwinTexts == {EmptyDict, "net_days" :> 100, "consignment_phrase" :> TRUE}

InitTwin ==
    /\ InitRun
    /\ Live
    /\ policy = DefaultPolicy
    /\ contract_id = "standard_saas"

\* run_analysis is called again: the graph is invoked on the same contract text
AnalyzeAgain ==
    /\ pc = "done"
    /\ earlier = NoResult
    /\ IsLiveResult(result)
    /\ earlier' = [kind |-> "live", result |-> result, responses |-> responses]
    /\ state' = [contract_id |-> contract_id,
                 contract_text |-> result.value.contract_text, trace |-> <<>>]
    /\ result' = NoResult
    /\ responses' = EmptyDict
    /\ received' = NoResult
    /\ pc' = "extract"
    /\ UNCHANGED <<policy_file, policy, toolVars, contract_id, use_demo, api_key_set, stdout>>

NextTwin ==
    \/ LiveStartFrom(TwinTexts)
    \/ extraction_node
    \/ policy_check_node
    \/ advocate_node
    \/ auditor_node
    \/ resolver_node
    \/ ReturnFinalState
    \/ AnalyzeAgain

SpecTwin == InitTwin /\ [][NextTwin]_vars

-----------------------------------------------------------------------------
(* The three checker blocks of policy_check_node taken in any order: each   *)
(* block calls its checker on terms = state["extracted_terms"] and appends  *)
(* its trace step; the results are aggregated when the three are there.     *)
(* The specification holds this caller next to the pipeline itself.         *)

OrderTerms ==
    {t \in TermRecords :
        /\ Get(t, "payment_terms_days", 30) \in {30, 100}
        /\ Get(t, "return_period_days", 0) \in {0, MaxReturnDays}
        /\ Get(t, "annual_escalation_percent", 0) \in {0, MaxEscalationTenths}}

NotRun(check) == DOMAIN check = {}

InitOrder ==
    /\ policy = DefaultPolicy
    /\ Imported
    /\ pc = "checking"
    /\ terms \in OrderTerms
    /\ state = [extracted_terms |-> terms,
                trace |-> << TraceStep(1, "extract_contract_terms",
                                       <<"Extracted key terms from contract">>) >>]
    /\ payment_check = EmptyDict
    /\ return_check = EmptyDict
    /\ variable_check = EmptyDict
    /\ risk_score = 0
    /\ recommendation = None
    /\ contract_id = None
    /\ use_demo = FALSE
    /\ api_key_set = FALSE
    /\ result = NoResult
    /\ stdout = <<>>
    /\ responses = EmptyDict
    /\ earlier = NoResult
    /\ received = NoResult

PaymentCheckerRuns ==
    /\ pc = "checking"
    /\ NotRun(payment_check)
    /\ payment_check' = check_payment_terms(terms)
    /\ state' = AppendTrace(state, TraceStep(2, "check_payment_terms",
                                             ComplianceSummary(payment_check')))
    /\ UNCHANGED <<policy_file, policy, pc, terms, return_check, variable_check, risk_score,
                   recommendation, contract_id, use_demo, api_key_set, result, stdout,
                   responses, earlier, received>>

\* mutant: the return checker is skipped once the payment check has failed
ReturnCheckerRuns_coupled ==
    /\ pc = "checking"
    /\ NotRun(return_check)
    /\ return_check' = IF ~NotRun(payment_check) /\ ~payment_check.compliant
                       THEN Compliant
                       ELSE check_return_rights(terms)
    /\ state' = AppendTrace(state, TraceStep(3, "check_return_rights",
                                             ComplianceSummary(return_check')))
    /\ UNCHANGED <<policy_file, policy, pc, terms, payment_check, variable_check, risk_score,
                   recommendation, contract_id, use_demo, api_key_set, result, stdout,
                   responses, earlier, received>>

ReturnCheckerRuns ==
    /\ pc = "checking"
    /\ NotRun(return_check)
    /\ return_check' = check_return_rights(terms)
    /\ state' = AppendTrace(state, TraceStep(3, "check_return_rights",
                                             ComplianceSummary(return_check')))
    /\ UNCHANGED <<policy_file, policy, pc, terms, payment_check, variable_check, risk_score,
                   recommendation, contract_id, use_demo, api_key_set, result, stdout,
                   responses, earlier, received>>

VariableCheckerRuns ==
    /\ pc = "checking"
    /\ NotRun(variable_check)
    /\ variable_check' = check_variable_consideration(terms)
    /\ state' = AppendTrace(state, TraceStep(4, "check_variable_consideration",
                                             ComplianceSummary(variable_check')))
    /\ UNCHANGED <<policy_file, policy, pc, terms, payment_check, return_check, risk_score,
                   recommendation, contract_id, use_demo, api_key_set, result, stdout,
                   responses, earlier, received>>

\* calculate_risk_score on the three results, as resolver_node calls it
AggregateChecks ==
    /\ pc = "checking"
    /\ ~NotRun(payment_check) /\ ~NotRun(return_check) /\ ~NotRun(variable_check)
    /\ risk_score' = calculate_risk_score(payment_check, return_check, variable_check)
    /\ pc' = "aggregated"
    /\ UNCHANGED <<policy_file, policy, terms, payment_check, return_check, variable_check,
                   recommendation, runVars>>

InitPipelineForOrder ==
    /\ InitRun
    /\ Live
    /\ policy = DefaultPolicy
    /\ contract_id = "consignment"

InitOrderOrPipeline == InitOrder \/ InitPipelineForOrder

NextOrder ==
    \/ PaymentCheckerRuns
    \/ ReturnCheckerRuns
    \/ VariableCheckerRuns
    \/ AggregateChecks
    \/ LiveStart
    \/ extraction_node
    \/ policy_check_node
    \/ advocate_node
    \/ auditor_node
    \/ resolver_node
    \/ ReturnFinalState

SpecOrder == InitOrderOrPipeline /\ [][NextOrder]_vars

-----------------------------------------------------------------------------
(* Claims about the pure functions *)

\* what the claims read from the term record, stated on the record itself
TermPaymentDays ==
    IF "payment_terms_days" \in DOMAIN terms THEN terms.payment_terms_days ELSE 30

TermReturnRights == "has_return_rights" \in DOMAIN terms /\ terms.has_return_rights

TermReturnDays ==
    IF "return_period_days" \in DOMAIN terms THEN terms.return_period_days ELSE 0

TermMfc == "mfc_clause" \in DOMAIN terms /\ terms.mfc_clause

TermMilestone == "milestone_based" \in DOMAIN terms /\ terms.milestone_based

TermConsignment == "consignment" \in DOMAIN terms /\ terms.consignment

TermEscalationHigh ==
    /\ "annual_escalation_percent" \in DOMAIN terms
    /\ terms.annual_escalation_percent > policy.AUTO_ESCALATION_MAX_PERCENT

PaymentChecked == pc \in {"payment_checked", "return_checked", "variable_checked",
                          "scored", "recommended"}

ReturnChecked == pc \in {"return_checked", "variable_checked", "scored", "recommended"}

VariableChecked == pc \in {"variable_checked", "scored", "recommended"}

Scored == pc \in {"scored", "recommended"}

IssueTypes(check) == {check.issues[i].type : i \in 1..Len(check.issues)}

IssueOfType(check, type) ==
    CHOOSE x \in {check.issues[i] : i \in 1..Len(check.issues)} : x.type = type

\* C1: for every integer score the mapper returns approve when score <= 30,
\* legal_review when 31 <= score <= 60 and reject when score >= 61; 29 and 30
\* give approve, 31 and 60 legal_review, 61 and 100 reject.
C1_RecommendationBreakpoints ==
    pc = "recommended" =>
        /\ (risk_score <= 30 => recommendation = "approve")
        /\ (risk_score >= 31 /\ risk_score <= 60 => recommendation = "legal_review")
        /\ (risk_score >= 61 => recommendation = "reject")
        /\ (risk_score \in {29, 30} => recommendation = "approve")
        /\ (risk_score \in {31, 60} => recommendation = "legal_review")
        /\ (risk_score \in {61, 100} => recommendation = "reject")

C1_Witness == pc = "recommended" /\ risk_score = 60 /\ recommendation = "legal_review"

\* the sums the aggregate is compared with: every whole point up to the bound
ProbeSums == {k * Pt : k \in 0..MaxProbePoints}

\* the score of each of them, as the one contribution of a payment check
ProbeScore ==
    [s \in ProbeSums |->
        calculate_risk_score([risk_score_contribution |-> s], EmptyDict, EmptyDict)]

\* C2: the risk score of the three checker results is an integer in 0..100
\* and is non-decreasing in the sum of the three contributions: a smaller sum
\* never gives a larger score, a larger sum never a smaller one.
C2_ScoreBoundedMonotone ==
    pc = "scored" =>
        LET sum == TotalScore(payment_check, return_check, variable_check)
        IN  /\ risk_score \in 0..100
            /\ \A s \in ProbeSums :
                  /\ (s <= sum => ProbeScore[s] <= risk_score)
                  /\ (s >= sum => ProbeScore[s] >= risk_score)

C2_Witness ==
    /\ pc = "scored"
    /\ TotalScore(payment_check, return_check, variable_check) > 100 * Pt
    /\ risk_score = 100

\* C3 as claimed: the risk score is min(round(p + r + v), 100), rounding to
\* the nearest integer, so that a sum of 37.5 gives 38.
C3_Original_RoundedSum ==
    pc = "scored" =>
        LET sum == TotalScore(payment_check, return_check, variable_check)
        IN  risk_score = Min((sum + Pt \div 2) \div Pt, 100)

\* C3 amended: the risk score is min(int(p + r + v), 100), the sum truncated
\* toward zero: it is 100 when the sum is 100 or more, and otherwise the
\* integer with risk_score <= sum < risk_score + 1 (37.5 gives 37).
C3_TruncatedSum ==
    pc = "scored" =>
        LET sum == TotalScore(payment_check, return_check, variable_check)
        IN  IF sum >= 100 * Pt
            THEN risk_score = 100
            ELSE risk_score * Pt <= sum /\ sum < (risk_score + 1) * Pt

C3_Witness ==
    /\ pc = "scored"
    /\ TotalScore(payment_check, return_check, variable_check) = 37 * Pt + Pt \div 2
    /\ risk_score = 37

\* C4: with payment_terms_days defaulting to 30, the payment check is
\* non-compliant iff the days exceed the cap; then it has exactly one issue,
\* of severity medium if the excess is <= 30 days and high otherwise, and the
\* contribution min(15 * (1 + excess/60), 25) as a double (within one last-bit
\* unit of the exact value); when compliant it has no issue and contribution
\* 0.  With the cap 60: 60 days is compliant, 90 days medium and 22.5, 150
\* days high and 25.
C4_PaymentCheck ==
    PaymentChecked =>
        LET cap == policy.PAYMENT_TERMS_MAX_DAYS
            excess == TermPaymentDays - cap
            exact == Min((15 * Pt * (60 + excess)) \div 60, 25 * Pt)
            c == payment_check.risk_score_contribution
        IN  /\ payment_check.compliant <=> TermPaymentDays <= cap
            /\ TermPaymentDays > cap =>
                  /\ Len(payment_check.issues) = 1
                  /\ payment_check.issues[1].severity =
                        (IF excess <= 30 THEN "medium" ELSE "high")
                  /\ c - exact \in {0 - 1, 0, 1}
            /\ TermPaymentDays <= cap =>
                  payment_check.issues = <<>> /\ c = 0
            /\ cap = 60 /\ TermPaymentDays = 60 =>
                  payment_check.compliant /\ c = 0
            /\ cap = 60 /\ TermPaymentDays = 90 =>
                  /\ ~payment_check.compliant
                  /\ payment_check.issues[1].severity = "medium"
                  /\ c = 22 * Pt + Pt \div 2
            /\ cap = 60 /\ TermPaymentDays = 150 =>
                  /\ payment_check.issues[1].severity = "high"
                  /\ c = 25 * Pt

C4_Witness ==
    /\ pc = "payment_checked"
    /\ policy.PAYMENT_TERMS_MAX_DAYS = 60
    /\ "payment_terms_days" \in DOMAIN terms
    /\ terms.payment_terms_days = 90
    /\ ~payment_check.compliant
    /\ payment_check.risk_score_contribution = 22 * Pt + Pt \div 2

\* C5: when has_return_rights is absent or false, the return check is
\* compliant with no issue and contribution 0, whatever return_period_days is.
C5_NoReturnRightsNoOp ==
    ReturnChecked /\ ~TermReturnRights =>
        /\ return_check.compliant
        /\ return_check.issues = <<>>
        /\ return_check.risk_score_contribution = 0

C5_Witness ==
    /\ pc = "return_checked"
    /\ "has_return_rights" \in DOMAIN terms
    /\ ~terms.has_return_rights
    /\ "return_period_days" \in DOMAIN terms
    /\ terms.return_period_days = 90
    /\ return_check.compliant

\* C6: with has_return_rights true, the return check is non-compliant iff
\* return_period_days (0 when absent) exceeds the cap; then the severity is
\* high and the contribution 37.5 if the period is > 60 days, else medium and
\* 25; a 90-day period is non-compliant, high, 37.5.
C6_ReturnCheck ==
    ReturnChecked /\ TermReturnRights =>
        LET c == return_check.risk_score_contribution
        IN  /\ ~return_check.compliant <=> TermReturnDays > policy.RETURN_PERIOD_MAX_DAYS
            /\ ~return_check.compliant =>
                  /\ Len(return_check.issues) = 1
                  /\ IF TermReturnDays > 60
                     THEN /\ return_check.issues[1].severity = "high"
                          /\ c = 37 * Pt + Pt \div 2
                     ELSE /\ return_check.issues[1].severity = "medium"
                          /\ c = 25 * Pt
            /\ TermReturnDays = 90 =>
                  /\ ~return_check.compliant
                  /\ return_check.issues[1].severity = "high"
                  /\ c = 37 * Pt + Pt \div 2

C6_Witness ==
    /\ pc = "return_checked"
    /\ TermReturnRights
    /\ TermReturnDays = 60
    /\ policy.RETURN_PERIOD_MAX_DAYS = 30
    /\ ~return_check.compliant
    /\ return_check.issues[1].severity = "medium"
    /\ return_check.risk_score_contribution = 25 * Pt

\* C7: the contribution of the variable-consideration check is the sum of the
\* weights of exactly the conditions that fire (mfc_clause 30, milestone_based
\* 10, consignment 35, escalation above the threshold 12), with one issue per
\* firing condition and no cap; mfc_clause and consignment together give 65.
C7_VariableContributionAdditive ==
    VariableChecked =>
        LET fired == (IF TermMfc THEN {"mfc_clause"} ELSE {})
                     \cup (IF TermMilestone THEN {"milestone_payments"} ELSE {})
                     \cup (IF TermConsignment THEN {"consignment"} ELSE {})
                     \cup (IF TermEscalationHigh THEN {"high_escalation"} ELSE {})
            c == variable_check.risk_score_contribution
        IN  /\ c = Pt * ((IF TermMfc THEN 30 ELSE 0)
                         + (IF TermMilestone THEN 10 ELSE 0)
                         + (IF TermConsignment THEN 35 ELSE 0)
                         + (IF TermEscalationHigh THEN 12 ELSE 0))
            /\ Len(variable_check.issues) = Cardinality(fired)
            /\ IssueTypes(variable_check) = fired
            /\ (TermMfc /\ TermConsignment /\ ~TermMilestone /\ ~TermEscalationHigh
                  => c = 65 * Pt)

C7_Witness ==
    /\ pc = "variable_checked"
    /\ TermMfc /\ TermConsignment /\ ~TermMilestone /\ ~TermEscalationHigh
    /\ variable_check.risk_score_contribution = 65 * Pt
    /\ Len(variable_check.issues) = 2

\* C8: the variable-consideration check is non-compliant iff mfc_clause or
\* consignment is set; milestone_based and an escalation above the threshold
\* each add an issue of medium severity and their weight, and never change
\* the compliant flag.
C8_VariableCompliantFlag ==
    VariableChecked =>
        LET c == variable_check.risk_score_contribution
            hard == Pt * ((IF TermMfc THEN 30 ELSE 0) + (IF TermConsignment THEN 35 ELSE 0))
        IN  /\ ~variable_check.compliant <=> (TermMfc \/ TermConsignment)
            /\ TermMilestone =>
                  /\ "milestone_payments" \in IssueTypes(variable_check)
                  /\ IssueOfType(variable_check, "milestone_payments").severity = "medium"
            /\ TermEscalationHigh =>
                  /\ "high_escalation" \in IssueTypes(variable_check)
                  /\ IssueOfType(variable_check, "high_escalation").severity = "medium"
            /\ c - hard = Pt * ((IF TermMilestone THEN 10 ELSE 0)
                                + (IF TermEscalationHigh THEN 12 ELSE 0))

C8_Witness ==
    /\ pc = "variable_checked"
    /\ TermMilestone /\ TermEscalationHigh /\ ~TermMfc /\ ~TermConsignment
    /\ variable_check.compliant
    /\ variable_check.risk_score_contribution = 22 * Pt

-----------------------------------------------------------------------------
(* Claims about the analysis pipeline *)

\* the 30/60 threshold mapping, as the claims state it
ThresholdMapping(score) ==
    IF score <= 30 THEN "approve"
    ELSE IF score <= 60 THEN "legal_review"
    ELSE "reject"

\* the analysis is over and the resolver's call of the language model failed
\* in it with an output json.loads rejects: resolver_node built the verdict
\* itself, with the raw output as its reasoning
ResolverOutputUnparseable ==
    /\ pc = "done"
    /\ result.kind = "returned"
    /\ "contract_text" \in DOMAIN result.value
    /\ responses["resolver"].kind = "text"

\* the score of the three checker results the pipeline computed for the contract
CheckersScore ==
    calculate_risk_score(state["_payment_check"], state["_return_check"],
                         state["_variable_check"])

\* C9 as claimed, for the failure resolver_node handles itself (unparseable
\* output): the result holds a verdict whose risk_score is
\* calculate_risk_score of the three checker results of this contract and
\* whose recommendation is the 30/60 threshold mapping of that score
\* (approve, legal_review or reject).
C9_Claim_FallbackVerdictFromCheckers ==
    ResolverOutputUnparseable =>
        /\ result.value.resolver_verdict.risk_score = CheckersScore
        /\ result.value.resolver_verdict.recommendation = ThresholdMapping(CheckersScore)

\* C10 as claimed: in every result run_live_analysis returns (the final state
\* of the graph, or the demo result after an ImportError), the verdict's
\* recommendation is the threshold mapping of the verdict's risk_score.
C10_Claim_RecommendationMatchesScore ==
    pc = "done" /\ Live /\ stdout = <<>> /\ result.kind = "returned" =>
        result.value.resolver_verdict.recommendation =
            ThresholdMapping(result.value.resolver_verdict.risk_score)

-----------------------------------------------------------------------------
(* Claims about two analyses of one contract *)

\* two live analyses of the same contract text under the same policy have
\* ended, each with the final state of the graph
TwoLiveResults == earlier.kind = "live" /\ pc = "done" /\ IsLiveResult(result)

SameVerdict ==
    LET first == earlier.result.value.resolver_verdict
        second == result.value.resolver_verdict
    IN  /\ first.risk_score = second.risk_score
        /\ first.recommendation = second.recommendation

-----------------------------------------------------------------------------
(* Claims about example term records *)

\* the term record of the caller sets no risk flag, has payment_terms_days =
\* 30 and no return rights
StandardTerms ==
    /\ "payment_terms_days" \in DOMAIN terms /\ terms.payment_terms_days = 30
    /\ ~TermReturnRights
    /\ ~TermMfc /\ ~TermMilestone /\ ~TermConsignment /\ ~TermEscalationHigh

\* C12: for a term record with no risk flag set, payment_terms_days = 30 and
\* no return rights, under the default policy, each of the three checkers
\* contributes 0, calculate_risk_score returns 0 and the recommendation for
\* that score is approve.
C12_StandardTermsApproved ==
    policy = DefaultPolicy /\ StandardTerms =>
        /\ PaymentChecked => payment_check.risk_score_contribution = 0
        /\ ReturnChecked => return_check.risk_score_contribution = 0
        /\ VariableChecked => variable_check.risk_score_contribution = 0
        /\ Scored => risk_score = 0
        /\ pc = "recommended" => recommendation = "approve"

C12_Witness ==
    /\ policy = DefaultPolicy /\ StandardTerms
    /\ "annual_escalation_percent" \in DOMAIN terms
    /\ pc = "recommended"
    /\ risk_score = 0
    /\ recommendation = "approve"

\* the record the pipeline extracted has consignment = true, no return rights,
\* payment_terms_days = 30 and no other risk flag
ConsignmentOnlyTerms ==
    /\ "extracted_terms" \in DOMAIN state
    /\ LET t == state.extracted_terms
       IN  /\ "consignment" \in DOMAIN t /\ t.consignment
           /\ "payment_terms_days" \in DOMAIN t /\ t.payment_terms_days = 30
           /\ "has_return_rights" \notin DOMAIN t
           /\ {"mfc_clause", "milestone_based", "annual_escalation_percent"}
                 \cap DOMAIN t = {}

\* C13: for a term record with consignment = true, has_return_rights = false,
\* payment_terms_days = 30 and no other risk flag, under the default policy,
\* the three checker results sum to 35, the risk score the pipeline computes
\* from them is 35 and the recommendation it gives for it is legal_review.
C13_ConsignmentOnlyLegalReview ==
    policy = DefaultPolicy /\ ConsignmentOnlyTerms =>
        /\ "_variable_check" \in DOMAIN state =>
              /\ state["_payment_check"].risk_score_contribution = 0
              /\ state["_return_check"].risk_score_contribution = 0
              /\ state["_variable_check"].risk_score_contribution = 35 * Pt
        /\ "resolver_verdict" \in DOMAIN state /\ responses["resolver"].kind = "text" =>
              /\ state.resolver_verdict.risk_score = 35
              /\ state.resolver_verdict.recommendation = "legal_review"

C13_Witness ==
    /\ policy = DefaultPolicy /\ ConsignmentOnlyTerms
    /\ pc = "done" /\ IsLiveResult(result)
    /\ responses["resolver"].kind = "text"
    /\ result.value.resolver_verdict.risk_score = 35
    /\ result.value.resolver_verdict.recommendation = "legal_review"

-----------------------------------------------------------------------------
(* Claims about the extractor *)

\* extract_contract_terms was called and returned a record
Extracted == pc = "extracted" /\ result.kind = "returned"

TextHasPartiesSection == "parties_section" \in DOMAIN state.contract_text

\* a role label is matched: the label patterns are tried inside the section
TextProviderMatched ==
    TextHasPartiesSection /\ "provider_label" \in DOMAIN state.contract_text

TextCustomerMatched ==
    TextHasPartiesSection /\ "customer_label" \in DOMAIN state.contract_text

PartiesUnknown ==
    /\ "parties" \in DOMAIN result.value
    /\ result.value.parties.provider = <<"Unknown">>
    /\ result.value.parties.customer = <<"Unknown">>

\* C16 as claimed: extract_contract_terms returns a term record and raises no
\* error for every input string, a value label followed only by commas
\* ("Total: ,") included.
C16_Claim_ExtractNeverRaises == pc = "extracted" => result.kind = "returned"

\* C17 as claimed: for every contract text in which no provider and no
\* customer role label can be matched, a text with no PARTIES section
\* included, the record has parties.provider = parties.customer = 'Unknown';
\* the parties field is never absent.
C17_Original_PartiesNeverAbsent ==
    Extracted =>
        /\ ~TextProviderMatched /\ ~TextCustomerMatched => PartiesUnknown
        /\ "parties" \in DOMAIN result.value

\* C17, amended: for every contract text that has a PARTIES section in which
\* no provider and no customer role label can be matched, the record has
\* parties.provider = parties.customer = 'Unknown'; with a PARTIES section the
\* parties field is present; for a text with no PARTIES section the record
\* has no parties field.
C17_PartiesUnknownInsideSection ==
    Extracted =>
        /\ TextHasPartiesSection /\ ~TextProviderMatched /\ ~TextCustomerMatched
              => PartiesUnknown
        /\ TextHasPartiesSection <=> "parties" \in DOMAIN result.value

C17_Witness ==
    /\ Extracted
    /\ TextHasPartiesSection /\ ~TextProviderMatched /\ ~TextCustomerMatched
    /\ PartiesUnknown

-----------------------------------------------------------------------------
(* Claims about the narrative outputs and about failures of the model call *)

\* the node's call of the model returned an output json.loads rejects
OutputUnparseable(node) == node \in DOMAIN responses /\ responses[node].kind = "text"

\* C18: when the advocate or auditor model output is not parseable as JSON,
\* the corresponding list is exactly one entry that carries the raw output
\* text verbatim with a neutral default classification (strength moderate for
\* the advocate, risk_level medium for the auditor), and the analysis goes on:
\* the run has not ended by it, and once both lists are there the resolver
\* stage can be taken.
C18_DegradedEntryAndContinue ==
    /\ OutputUnparseable("advocate") =>
          /\ "advocate_arguments" \in DOMAIN state
          /\ state.advocate_arguments.py = "list"
          /\ Len(state.advocate_arguments.items) = 1
          /\ state.advocate_arguments.items[1].argument = responses["advocate"].content
          /\ state.advocate_arguments.items[1].strength = "moderate"
    /\ OutputUnparseable("auditor") =>
          /\ "auditor_findings" \in DOMAIN state
          /\ state.auditor_findings.py = "list"
          /\ Len(state.auditor_findings.items) = 1
          /\ state.auditor_findings.items[1].finding = responses["auditor"].content
          /\ state.auditor_findings.items[1].risk_level = "medium"
    /\ (OutputUnparseable("advocate") \/ OutputUnparseable("auditor"))
       /\ DOMAIN responses \subseteq {"advocate", "auditor"}
       /\ (\A node \in DOMAIN responses : OutputUnparseable(node))
       => /\ pc = "debate"
          /\ result = NoResult
          /\ DOMAIN responses = {"advocate", "auditor"} => ENABLED resolver_node

C18_Witness ==
    /\ pc = "done"
    /\ IsLiveResult(result)
    /\ OutputUnparseable("advocate")
    /\ OutputUnparseable("auditor")
    /\ result.value.advocate_arguments.items[1].strength = "moderate"
    /\ result.value.auditor_findings.items[1].risk_level = "medium"
    /\ "resolver_verdict" \in DOMAIN result.value

\* the entries of a list value each hold the keys and the classification is
\* one of the levels
WellShapedList(v, keys, classification, levels) ==
    /\ v.py = "list"
    /\ \A i \in 1..Len(v.items) :
          /\ keys \subseteq DOMAIN v.items[i]
          /\ v.items[i][classification] \in levels

WellShapedVerdict(v) ==
    /\ {"risk_score", "confidence", "recommendation", "reasoning", "key_factors"}
          \subseteq DOMAIN v
    /\ v.risk_score \in 0..100
    /\ v.confidence \in 0..100
    /\ v.recommendation \in {"approve", "legal_review", "reject"}

\* C19 as claimed: in every result returned by a live analysis, whatever the
\* model returns, advocate_arguments is a list whose entries each have point,
\* argument and strength in {strong, moderate, weak}, auditor_findings is a
\* list whose entries each have clause, finding and risk_level in {high,
\* medium, low}, and resolver_verdict has risk_score and confidence in
\* [0,100], recommendation in {approve, legal_review, reject}, reasoning and
\* key_factors.
C19_Claim_ResultWellShaped ==
    pc = "done" /\ IsLiveResult(result) =>
        /\ WellShapedList(result.value.advocate_arguments,
                          {"point", "argument", "strength"}, "strength",
                          {"strong", "moderate", "weak"})
        /\ WellShapedList(result.value.auditor_findings,
                          {"clause", "finding", "risk_level"}, "risk_level",
                          {"high", "medium", "low"})
        /\ WellShapedVerdict(result.value.resolver_verdict)

CredentialMissing == ~use_demo /\ ~api_key_set

IsPrecomputed(r) == r.kind = "returned" /\ r.value = DemoResults[contract_id]

\* the result's verdict is the one computed from the checker results
IsRuleOnly(r) ==
    /\ IsLiveResult(r)
    /\ r.value.resolver_verdict.key_factors = <<"See detailed analysis">>
    /\ r.value.resolver_verdict.confidence = 70

-----------------------------------------------------------------------------
(* Claims about requests and configuration *)

ImportOver == pc # "import"

ImportSucceeded == pc \notin {"import", "import_failed"}

FieldAbsent(field) ==
    policy_file.kind = "json_object" /\ field \notin DOMAIN policy_file.fields

-----------------------------------------------------------------------------
(* Claims about the trace, the order of the stages and what they change *)

CheckerTools ==
    <<"check_payment_terms", "check_return_rights", "check_variable_consideration">>

CheckResultKeys == <<"_payment_check", "_return_check", "_variable_check">>

\* C23 as claimed: in every completed live analysis the trace holds one step
\* per stage executed, in execution order: the step numbers are 1, 2, ..., n
\* along the list, extract_contract_terms first, then the three checker
\* steps, then the narrative steps, with resolve_debate last; each checker
\* step's summary is the compliant one iff that checker's compliant flag is
\* true.
C23_Claim_TraceInExecutionOrder ==
    pc = "done" /\ IsLiveResult(result) =>
        LET tr == result.value.trace
        IN  /\ \A i \in 1..Len(tr) : tr[i].step = i
            /\ tr[1].tool = "extract_contract_terms"
            /\ \A k \in 1..3 :
                  /\ tr[k + 1].tool = CheckerTools[k]
                  /\ tr[k + 1].summary = <<"Compliant">>
                        <=> result.value[CheckResultKeys[k]].compliant
            /\ tr[Len(tr)].tool = "resolve_debate"

C25_Claim_NoInPlaceModification ==
    "node" \in DOMAIN received => received.after = received.before

-----------------------------------------------------------------------------
(* Claims about the issues the checkers produce *)

\* the issues of the checkers that have run
IssuesOf(check) == IF NotRun(check) THEN {} ELSE {check.issues[i] : i \in 1..Len(check.issues)}

ProducedIssues == IssuesOf(payment_check) \cup IssuesOf(return_check) \cup IssuesOf(variable_check)

\* the reference the policy's table stores under a name, null without one
TableReference(name) ==
    LET table == policy.ASC_606_RISK_FACTORS
    IN  IF name \in DOMAIN table /\ "reference" \in DOMAIN table[name]
        THEN table[name].reference
        ELSE None

\* the risk factor a checker names for an issue type
FactorOfIssueType(type) ==
    CASE type = "extended_return_period" -> "right_of_return"
      [] type = "mfc_clause" -> "price_protection"
      [] OTHER -> type

\* C26 as claimed: every issue a checker produces carries as
\* asc_606_reference the reference stored in the policy's reference table
\* under that issue's own type, and null when the table has no entry for it.
C26_Original_ReferenceByIssueType ==
    \A issue \in ProducedIssues : issue.asc_606_reference = TableReference(issue.type)

\* C26, amended: every issue carries the reference stored in the table under
\* the risk factor its checker names for it (the issue's type, except
\* right_of_return for an extended_return_period issue and price_protection
\* for an mfc_clause issue), a high_escalation issue always carries null, and
\* the reference is null when the table has no entry or the entry has no
\* reference.
C26_ReferenceByRiskFactor ==
    \A issue \in ProducedIssues :
        issue.asc_606_reference =
            IF issue.type = "high_escalation" THEN None
            ELSE TableReference(FactorOfIssueType(issue.type))

C26_Witness ==
    /\ pc = "variable_checked"
    /\ policy.ASC_606_RISK_FACTORS = FullRiskFactors
    /\ \E issue \in ProducedIssues :
          issue.type = "mfc_clause" /\ issue.asc_606_reference = "ref_price_protection"
    /\ \E issue \in ProducedIssues :
          issue.type = "extended_return_period"
          /\ issue.asc_606_reference = "ref_right_of_return"
    /\ \E issue \in ProducedIssues : issue.type = "high_escalation"

\* the results of the checkers that have run
CheckResults == {check \in {payment_check, return_check, variable_check} : ~NotRun(check)}

\* C27: for every checker and every term record, the returned issue list is
\* empty iff risk_score_contribution is 0, compliant = false implies the
\* issue list is non-empty, and the contribution is never negative.
C27_CheckResultConsistent ==
    \A check \in CheckResults :
        /\ (Len(check.issues) = 0) <=> (check.risk_score_contribution = 0)
        /\ (check.compliant = FALSE) => Len(check.issues) > 0
        /\ check.risk_score_contribution >= 0

C27_Witness ==
    /\ pc = "variable_checked"
    /\ payment_check.compliant = FALSE
    /\ Len(payment_check.issues) = 1
    /\ payment_check.risk_score_contribution > 0
    /\ Len(return_check.issues) = 0
    /\ return_check.risk_score_contribution = 0
    /\ variable_check.compliant = TRUE
    /\ Len(variable_check.issues) = 2
    /\ variable_check.risk_score_contribution > 0

-----------------------------------------------------------------------------
(* Claims about the risk level and the recommendation of a score *)

BothMapped == pc = "recommended" /\ result # NoResult

\* C28: for every integer score in [0,100], get_risk_level and
\* get_recommendation_from_score agree: the level is low iff the
\* recommendation is approve, medium iff legal_review, high iff reject.
C28_LevelAgreesWithRecommendation ==
    (BothMapped /\ risk_score \in 0..100) =>
        /\ (result.value = "low") <=> (recommendation = "approve")
        /\ (result.value = "medium") <=> (recommendation = "legal_review")
        /\ (result.value = "high") <=> (recommendation = "reject")

C28_Witness ==
    /\ BothMapped
    /\ risk_score = 30
    /\ result.value = "low"
    /\ recommendation = "approve"

-----------------------------------------------------------------------------
(* Claims about the fields of an extracted record *)

Present(record, field) == field \in DOMAIN record

\* C29: every record extract_contract_terms returns satisfies:
\* return_period_days is present only if has_return_rights is true;
\* annual_escalation_percent is present only if auto_renewal is true;
\* perpetual_license is present only if term_months = 0; mfc_clause is
\* present iff price_protection is present; liability_cap and
\* unlimited_liability are never both present.
C29_ExtractedRecordConsistent ==
    Extracted =>
        LET record == result.value
        IN  /\ Present(record, "return_period_days") =>
                  Present(record, "has_return_rights") /\ record.has_return_rights = TRUE
            /\ Present(record, "annual_escalation_percent") =>
                  Present(record, "auto_renewal") /\ record.auto_renewal = TRUE
            /\ Present(record, "perpetual_license") =>
                  Present(record, "term_months") /\ record.term_months = 0
            /\ Present(record, "mfc_clause") <=> Present(record, "price_protection")
            /\ ~(Present(record, "liability_cap") /\ Present(record, "unlimited_liability"))

C29_Witness ==
    /\ Extracted
    /\ Found(state.contract_text, "liability_cap")
    /\ Found(state.contract_text, "unlimited_liability_phrase")
    /\ Present(result.value, "liability_cap")
    /\ Present(result.value, "return_period_days")
    /\ Present(result.value, "annual_escalation_percent")
    /\ Present(result.value, "perpetual_license")
    /\ Present(result.value, "mfc_clause")

====
